---- MODULE Spec2Model ----
(***************************************************************************)
(* A model of src/app.py: the row classifier (clean_df), the natural sort  *)
(* key and sorted_group, the DateTermine text codec (format_datetime /     *)
(* parse_genius_datetime), apply_updates, the two exports, and the         *)
(* Streamlit rerun handler main() with its session state.                  *)
(*                                                                         *)
(* Text is a sequence of characters; a character is a one-token string     *)
(* ("a", "A", " ", "7", or a named token such as "a_grave" for U+00E0).    *)
(* A cell is a record [absent, text]: absent = TRUE models None / NaN.     *)
(***************************************************************************)
EXTENDS Integers, Sequences, FiniteSets, TLC

VARIABLES
    op,        \* pure-function specifications: "ready" before the call, the function's name after
    input,     \* pure-function specifications: the arguments of the call
    output,    \* pure-function specifications: the value returned (or the error raised)
    session,   \* st.session_state: mode, df_clean, sheet_name, original_columns, ...
    disk,      \* what save_to_disk last wrote at save_path
    exported,  \* what the two download buttons of the last run offer (nothing if it returned before them)
    hist,      \* history: the last load attempt, the session at its start, the ingested positions
    widgets    \* the page's widgets: the file picked, the save path, the date pickers, what is shown

vars == <<op, input, output, session, disk, exported, hist, widgets>>

(***************************************************************************)
(* Characters                                                              *)
(***************************************************************************)
UpperSeq == <<"A","B","C","D","E","F","G","H","I","J","K","L","M",
              "N","O","P","Q","R","S","T","U","V","W","X","Y","Z">>

LowerSeq == <<"a","b","c","d","e","f","g","h","i","j","k","l","m",
              "n","o","p","q","r","s","t","u","v","w","x","y","z">>

DigitSeq == <<"0","1","2","3","4","5","6","7","8","9">>

RangeOf(s) == {s[i] : i \in DOMAIN s}

IndexIn(s, c) == CHOOSE i \in DOMAIN s : s[i] = c

\* [A-Za-z]
IsAsciiLetter(c) == c \in RangeOf(UpperSeq) \cup RangeOf(LowerSeq)

\* \d (the ASCII digits of it)
IsDigit(c) == c \in RangeOf(DigitSeq)

\* str.strip() / \s : space, tab, newline
IsSpace(c) == c \in {" ", "TAB", "NL"}

\* the accented letters of the model: U+00C0, U+00E0, U+00C9, U+00E9
\* str.lower(), one character
LowerChar(c) ==
    IF c \in RangeOf(UpperSeq) THEN LowerSeq[IndexIn(UpperSeq, c)]
    ELSE IF c = "A_GRAVE" THEN "a_grave"
    ELSE IF c = "E_ACUTE" THEN "e_acute"
    ELSE c

\* str.upper(), one character
UpperChar(c) ==
    IF c \in RangeOf(LowerSeq) THEN UpperSeq[IndexIn(LowerSeq, c)]
    ELSE IF c = "a_grave" THEN "A_GRAVE"
    ELSE IF c = "e_acute" THEN "E_ACUTE"
    ELSE c

\* unicodedata.normalize("NFKD", .), one character: a precomposed letter
\* decomposes into its base letter and a combining mark
NFKDChar(c) ==
    CASE c = "a_grave" -> <<"a", "COMB_GRAVE">>
      [] c = "A_GRAVE" -> <<"A", "COMB_GRAVE">>
      [] c = "e_acute" -> <<"e", "COMB_ACUTE">>
      [] c = "E_ACUTE" -> <<"E", "COMB_ACUTE">>
      [] OTHER -> <<c>>

\* unicodedata.combining(ch) != 0
IsCombining(c) == c \in {"COMB_GRAVE", "COMB_ACUTE"}

(***************************************************************************)
(* Text                                                                    *)
(***************************************************************************)
RECURSIVE LStrip(_)
LStrip(s) == IF s # <<>> /\ IsSpace(Head(s)) THEN LStrip(Tail(s)) ELSE s

RECURSIVE RStrip(_)
RStrip(s) ==
    IF s # <<>> /\ IsSpace(s[Len(s)]) THEN RStrip(SubSeq(s, 1, Len(s) - 1)) ELSE s

\* str.strip()
Strip(s) == RStrip(LStrip(s))

\* str.lower()
Lower(s) == [i \in DOMAIN s |-> LowerChar(s[i])]

RECURSIVE NFKD(_)
NFKD(s) == IF s = <<>> THEN <<>> ELSE NFKDChar(Head(s)) \o NFKD(Tail(s))

\* "".join(ch for ch in text if not unicodedata.combining(ch))
DropCombining(s) == SelectSeq(s, LAMBDA c : ~IsCombining(c))

\* cells
Absent == [absent |-> TRUE, text |-> <<>>]

Txt(s) == [absent |-> FALSE, text |-> s]

\* all texts over an alphabet, up to a length
TextsUpTo(alphabet, n) == UNION {[1..k -> alphabet] : k \in 0..n}

(***************************************************************************)
(* has_value, normalize_text                                               *)
(***************************************************************************)
has_value(val) == IF val.absent THEN FALSE ELSE Strip(val.text) # <<>>

normalize_text(value) ==
    IF value.absent THEN <<>> ELSE DropCombining(NFKD(Lower(Strip(value.text))))

(***************************************************************************)
(* Tables.  A frame is a sequence of rows in row order; idx is the row's   *)
(* index label.  A raw frame (load_excel) has the RangeIndex 0..n-1 and no *)
(* orig_index column; clean_df adds the column.  The atom "NaN" is a       *)
(* missing value in a column the model does not read as text.              *)
(***************************************************************************)
REQUIRED_COLS == <<"Job", "MK", "ISO", "Operation Description1", "OperationCode",
                   "CustomFieldName", "CustomFieldValue", "ItemCode", "StepOrder",
                   "BomVersionId">>

RawRow(i, job, label, opcode, field, value) ==
    [idx |-> i, Job |-> job, MK |-> "mk", ISO |-> "iso",
     OperationDescription1 |-> label, OperationCode |-> opcode,
     CustomFieldName |-> field, CustomFieldValue |-> value,
     ItemCode |-> "item", StepOrder |-> "10", BomVersionId |-> "bom"]

\* df_clean["_orig_index"] = df_clean.index, one row
WithOrigIndex(r) ==
    [idx |-> r.idx, Job |-> r.Job, MK |-> r.MK, ISO |-> r.ISO,
     OperationDescription1 |-> r.OperationDescription1,
     OperationCode |-> r.OperationCode, CustomFieldName |-> r.CustomFieldName,
     CustomFieldValue |-> r.CustomFieldValue, ItemCode |-> r.ItemCode,
     StepOrder |-> r.StepOrder, BomVersionId |-> r.BomVersionId,
     orig_index |-> r.idx]

\* df[mask]: the rows whose mask entry is true, in row order
RECURSIVE BoolIndexFrom(_, _, _)
BoolIndexFrom(df, mask, i) ==
    IF i > Len(df) THEN <<>>
    ELSE (IF mask[i] THEN <<df[i]>> ELSE <<>>) \o BoolIndexFrom(df, mask, i + 1)

BoolIndex(df, mask) == BoolIndexFrom(df, mask, 1)

IndexOf(df) == {df[i].idx : i \in DOMAIN df}

(***************************************************************************)
(* clean_df                                                                *)
(***************************************************************************)
target_fields ==
    { <<"d","i","a","m","e","t","r","e">>,
      <<"m","a","t","e","r","i","e","l">>,
      <<"p","o","s","o","u","d","u","r","e","c","o","r","r","i","g","e">>,
      <<"s","c","h">>,
      <<"t","y","p","e">> }

\* a slip: the two masks joined with & instead of |
clean_df_and(df) ==
    LET df_clean == [i \in DOMAIN df |-> WithOrigIndex(df[i])]
        mask_filled == [i \in DOMAIN df |-> has_value(df_clean[i].CustomFieldValue)]
        mask_ass == [i \in DOMAIN df |->
                        /\ normalize_text(df_clean[i].OperationCode) = <<"a","s","s">>
                        /\ normalize_text(df_clean[i].CustomFieldName) \in target_fields]
    IN  BoolIndex(df_clean, [i \in DOMAIN df |-> ~(mask_filled[i] /\ mask_ass[i])])

clean_df(df) ==
    LET df_clean == [i \in DOMAIN df |-> WithOrigIndex(df[i])]
        mask_filled == [i \in DOMAIN df |-> has_value(df_clean[i].CustomFieldValue)]
        op_norm == [i \in DOMAIN df |-> normalize_text(df_clean[i].OperationCode)]
        field_norm == [i \in DOMAIN df |-> normalize_text(df_clean[i].CustomFieldName)]
        mask_ass == [i \in DOMAIN df |->
                        op_norm[i] = <<"a","s","s">> /\ field_norm[i] \in target_fields]
    IN  BoolIndex(df_clean, [i \in DOMAIN df |-> ~(mask_filled[i] \/ mask_ass[i])])

(***************************************************************************)
(* Session state (init_session_state) and what surrounds it                *)
(***************************************************************************)
NoneFrame == [none |-> TRUE, rows |-> <<>>]

Frame(rows) == [none |-> FALSE, rows |-> rows]

\* updates: a dict in insertion order, a sequence of <<label, value>> with distinct labels
EmptyUpdates == <<>>

init_session_state ==
    [mode |-> "None", df_clean |-> NoneFrame, sheet_name |-> "None",
     save_path |-> "None", selected_job |-> "None", updates |-> EmptyUpdates,
     original_columns |-> <<>>, loaded_source_id |-> "None", job_changed |-> FALSE]

NoDisk == [written |-> FALSE, rows |-> <<>>, sheet_name |-> "None"]

NoExport == [made |-> FALSE, full |-> <<>>, genius |-> <<>>, frame |-> <<>>, columns |-> <<>>]

\* the date widgets: the check box, the date and the time picked
DateOff == [apply |-> FALSE, date |-> <<2024, 1, 5>>, time |-> <<15, 0>>]

NoWidgets == [source |-> "None", path_ok |-> TRUE, dt |-> DateOff, rendered |-> FALSE]

NoHist == [load |-> "none", before |-> init_session_state, ingested |-> {}]

\* the session part of a state in which no page has run yet
SessionIdle ==
    /\ session = init_session_state
    /\ disk = NoDisk
    /\ exported = NoExport
    /\ hist = NoHist
    /\ widgets = NoWidgets

\* a pure-function specification starts with the arguments chosen and no call made
PureInit(inputs) ==
    /\ op = "ready"
    /\ input \in inputs
    /\ output = "none"
    /\ SessionIdle

(***************************************************************************)
(* SpecClassify: clean_df applied to a raw table                           *)
(***************************************************************************)
MaxOpLen == 3
MaxValueLen == 2
MaxRawRows == 2

\* OperationCode texts: every text over these characters, up to MaxOpLen
OpAlphabet == {"a", "A", "s", "S", "A_GRAVE", " "}

OpCodes(maxLen) == {Absent} \cup {Txt(t) : t \in TextsUpTo(OpAlphabet, maxLen)}

\* CustomFieldName texts: target fields in several spellings, and others
FieldNames ==
    { Txt(<<"s","c","h">>), Txt(<<" ","S","c","H"," ">>),
      Txt(<<"D","i","a","m","e_acute","t","r","e">>),
      Txt(<<"T","Y","P","E">>), Txt(<<"t","y","p">>),
      Txt(<<"D","a","t","e","T","e","r","m","i","n","e">>), Absent }

\* CustomFieldValue texts: every text over these characters, up to MaxValueLen
ValueAlphabet == {" ", "x"}

Values(maxLen) == {Absent} \cup {Txt(t) : t \in TextsUpTo(ValueAlphabet, maxLen)}

LabelA1 == Txt(<<"A","1">>)

\* one-row raw tables, every combination of the three classified columns
OneRowTables(maxOpLen, maxValueLen) ==
    { <<RawRow(0, "J1", LabelA1, o, f, v)>> :
        o \in OpCodes(maxOpLen), f \in FieldNames, v \in Values(maxValueLen) }

\* the rows of the longer raw tables
FewOpCodes == {Txt(<<"A","S","S">>), Txt(<<"s","o","u">>)}
FewFieldNames == {Txt(<<"s","c","h">>), Txt(<<"D","a","t","e","T","e","r","m","i","n","e">>)}
FewValues == {Absent, Txt(<<"x">>)}

FewCells == FewOpCodes \X FewFieldNames \X FewValues

ManyRowTables(maxRows) ==
    UNION { { [i \in 1..n |-> RawRow(i - 1, "J1", LabelA1, c[i][1], c[i][2], c[i][3])] :
                c \in [1..n -> FewCells] } : n \in 0..maxRows }

InitClassify ==
    \/ PureInit(OneRowTables(MaxOpLen, MaxValueLen))
    \/ PureInit(ManyRowTables(MaxRawRows))

CallCleanDf ==
    /\ op = "ready"
    /\ op' = "clean_df"
    /\ output' = clean_df(input)
    /\ UNCHANGED <<input, session, disk, exported, hist, widgets>>

NextClassify == CallCleanDf

SpecClassify == InitClassify /\ [][NextClassify]_vars

\* the claim's has_value: present, and some character is not white space
HasValueStated(v) == ~v.absent /\ \E k \in DOMAIN v.text : ~IsSpace(v.text[k])

\* the claim's is_ass_target
IsAssTarget(r) ==
    /\ normalize_text(r.OperationCode) = <<"a","s","s">>
    /\ normalize_text(r.CustomFieldName) \in target_fields

KeepStated(r) == ~(HasValueStated(r.CustomFieldValue) \/ IsAssTarget(r))

\* C1: clean_df keeps a raw row if and only if NOT (has_value(CustomFieldValue)
\* OR is_ass_target(row)): the result is, in row order, exactly the raw rows that
\* satisfy keep, each unchanged and carrying its raw position as index label and
\* as orig_index.
C1_CleanDfKeepsExactly ==
    op = "clean_df" =>
        /\ output = SelectSeq([i \in DOMAIN input |-> WithOrigIndex(input[i])], KeepStated)
        /\ \A i \in DOMAIN input :
              (input[i].idx \in IndexOf(output)) <=> KeepStated(input[i])
        /\ \A j \in DOMAIN output :
              /\ ~HasValueStated(output[j].CustomFieldValue)
              /\ output[j].orig_index = output[j].idx

\* an accented, upper-case spelling of "ass" on a target field is dropped although
\* its value is empty, and a row with a value is dropped although it is no target
C1_Witness ==
    /\ op = "clean_df"
    /\ Len(input) = 1
    /\ input[1].OperationCode = Txt(<<"A_GRAVE","s","S">>)
    /\ input[1].CustomFieldName = Txt(<<"D","i","a","m","e_acute","t","r","e">>)
    /\ input[1].CustomFieldValue = Txt(<<" ">>)
    /\ output = <<>>

(***************************************************************************)
(* apply_updates                                                           *)
(***************************************************************************)
\* NaN in the _orig_index column (the column holds positions otherwise)
NaNIndex == -1

\* the row DataFrame.at creates when the label is not in the index: the value in
\* its column, NaN in every other column
EnlargedRow(idx, value) ==
    [idx |-> idx, Job |-> "NaN", MK |-> "NaN", ISO |-> "NaN",
     OperationDescription1 |-> Absent, OperationCode |-> Absent,
     CustomFieldName |-> Absent, CustomFieldValue |-> value, ItemCode |-> "NaN",
     StepOrder |-> "NaN", BomVersionId |-> "NaN", orig_index |-> NaNIndex]

\* df.at[idx, "CustomFieldValue"] = value
SetAt(df, idx, value) ==
    IF idx \in IndexOf(df)
    THEN [i \in DOMAIN df |->
            IF df[i].idx = idx THEN [df[i] EXCEPT !.CustomFieldValue = value] ELSE df[i]]
    ELSE Append(df, EnlargedRow(idx, value))

\* the for loop of apply_updates over updates.items(), from item k on
RECURSIVE ApplyFrom(_, _, _)
ApplyFrom(df_updated, updates, k) ==
    IF k > Len(updates) THEN df_updated
    ELSE LET idx == updates[k][1]
             value == updates[k][2]
         IN  ApplyFrom(SetAt(df_updated, idx, IF value.absent THEN Txt(<<>>) ELSE value),
                       updates, k + 1)

\* a slip: the clear marker is stored as it is instead of as ""
RECURSIVE ApplyFromKeepNone(_, _, _)
ApplyFromKeepNone(df_updated, updates, k) ==
    IF k > Len(updates) THEN df_updated
    ELSE ApplyFromKeepNone(SetAt(df_updated, updates[k][1], updates[k][2]), updates, k + 1)

apply_updates_keep_none(df_clean, updates) ==
    IF updates = <<>> THEN df_clean ELSE ApplyFromKeepNone(df_clean, updates, 1)

apply_updates(df_clean, updates) ==
    IF updates = <<>> THEN df_clean ELSE ApplyFrom(df_clean, updates, 1)

(***************************************************************************)
(* SpecReconcile: apply_updates applied to a working table and an edits map*)
(***************************************************************************)
MaxPos == 3

Positions == 0..(MaxPos - 1)

\* the columns of the row at a raw position that the edits never touch
JobAt(i) == IF i % 2 = 0 THEN "J1" ELSE "J2"

LabelAt(i) == Txt(<<"A", DigitSeq[i + 1]>>)

WorkingRow(i, value) ==
    WithOrigIndex(RawRow(i, JobAt(i), LabelAt(i), Txt(<<"s","o","u">>),
                         Txt(<<"s","c","h">>), value))

\* working tables: the rows that survived, in raw order, empty or filled by earlier edits
WorkingValues == {Absent, Txt(<<"x">>)}

RECURSIVE RowsOf(_, _)
RowsOf(present, i) ==
    IF i >= MaxPos THEN <<>>
    ELSE (IF present[i].kept THEN <<WorkingRow(i, present[i].value)>> ELSE <<>>)
         \o RowsOf(present, i + 1)

WorkingTables(positions) ==
    { RowsOf(p, 0) :
        p \in [positions -> {[kept |-> FALSE, value |-> Absent]}
                             \cup {[kept |-> TRUE, value |-> v] : v \in WorkingValues}] }

\* pending edits: distinct labels in any order, each with a text or the clear marker
EditValues == {Absent, Txt(<<"x">>), Txt(<<" ">>)}

IsInjective(f) == \A a, b \in DOMAIN f : a # b => f[a] # f[b]

EditMaps(positions) ==
    UNION { { [k \in 1..n |-> <<keys[k], vals[k]>>] :
                keys \in {f \in [1..n -> positions] : IsInjective(f)},
                vals \in [1..n -> EditValues] } : n \in 0..Cardinality(positions) }

ReconcileInputs(positions) ==
    {[df |-> t, updates |-> e] : t \in WorkingTables(positions), e \in EditMaps(positions)}

InitReconcile == PureInit(ReconcileInputs(Positions))

CallApplyUpdates ==
    /\ op = "ready"
    /\ op' = "apply_updates"
    /\ output' = apply_updates(input.df, input.updates)
    /\ UNCHANGED <<input, session, disk, exported, hist, widgets>>

NextReconcile == CallApplyUpdates

SpecReconcile == InitReconcile /\ [][NextReconcile]_vars

UpdateKeys(updates) == {updates[k][1] : k \in DOMAIN updates}

UpdateValue(updates, idx) == updates[CHOOSE k \in DOMAIN updates : updates[k][1] = idx][2]

RowsAt(df, idx) == SelectSeq(df, LAMBDA r : r.idx = idx)

\* C2: after apply_updates(T, E) every row whose position is a key of E holds ""
\* when E maps it to the clear marker and the mapped value verbatim otherwise; every
\* row of T whose position is no key of E is as it was; and on every row of T every
\* column other than CustomFieldValue is as it was.
C2_EditsLandVerbatim ==
    op = "apply_updates" =>
        /\ \A j \in DOMAIN output :
              output[j].idx \in UpdateKeys(input.updates) =>
                  LET v == UpdateValue(input.updates, output[j].idx)
                  IN  output[j].CustomFieldValue = (IF v.absent THEN Txt(<<>>) ELSE v)
        /\ \A i \in DOMAIN input.df :
              LET r == input.df[i]
              IN  /\ Len(output) >= i
                  /\ [output[i] EXCEPT !.CustomFieldValue = r.CustomFieldValue] = r
                  /\ r.idx \notin UpdateKeys(input.updates) => output[i] = r
                  /\ r.idx \in UpdateKeys(input.updates) =>
                        LET v == UpdateValue(input.updates, r.idx)
                        IN  output[i].CustomFieldValue = (IF v.absent THEN Txt(<<>>) ELSE v)

\* a filled row is cleared by the clear marker while another row is left alone
C2_Witness ==
    /\ op = "apply_updates"
    /\ \E i, j \in DOMAIN input.df :
          /\ input.df[i].CustomFieldValue = Txt(<<"x">>)
          /\ input.df[i].idx \in UpdateKeys(input.updates)
          /\ UpdateValue(input.updates, input.df[i].idx) = Absent
          /\ output[i].CustomFieldValue = Txt(<<>>)
          /\ input.df[j].idx \notin UpdateKeys(input.updates)
          /\ output[j] = input.df[j]

\* C3 as stated: an edit naming a position that no row of the working table has is
\* ignored, so the result has the same positions and the same number of rows.
C3_AbsentPositionIgnored ==
    op = "apply_updates" =>
        /\ IndexOf(output) = IndexOf(input.df)
        /\ Len(output) = Len(input.df)

(***************************************************************************)
(* SpecReapply: apply_updates called on a table object the caller keeps.   *)
(* A call works on two objects: df_clean, the caller's table, and          *)
(* df_updated, the table the loop writes into and the call returns.        *)
(***************************************************************************)
\* lines 138-143: the loop writes into the object named target and returns it
LoopInto(objects, target, updates) ==
    [df_clean |-> IF target = "df_clean" THEN ApplyFrom(objects[target], updates, 1)
                  ELSE objects.df_clean,
     returned |-> ApplyFrom(objects[target], updates, 1),
     same_object |-> target = "df_clean"]

\* a slip: df_updated = df_clean, without the copy
ApplyUpdatesCallInPlace(df_clean, updates) ==
    IF updates = <<>>
    THEN [df_clean |-> df_clean, returned |-> df_clean, same_object |-> TRUE]
    ELSE LoopInto([df_clean |-> df_clean, df_updated |-> df_clean], "df_clean", updates)

\* one call of apply_updates: the caller's table as the call leaves it, the table
\* returned, and whether the two are one object (line 136 returns df_clean itself;
\* line 137 makes df_updated a copy)
ApplyUpdatesCall(df_clean, updates) ==
    IF updates = <<>>
    THEN [df_clean |-> df_clean, returned |-> df_clean, same_object |-> TRUE]
    ELSE LoopInto([df_clean |-> df_clean, df_updated |-> df_clean], "df_updated", updates)

\* the largest edits map of SpecReapply
MaxEdits == 2

ReapplyInputs(positions, maxEdits) ==
    {i \in ReconcileInputs(positions) : Len(i.updates) <= maxEdits}

InitReapply == PureInit(ReapplyInputs(Positions, MaxEdits))

NoTable == <<>>

\* the first call: T as given is noted, T becomes what the call leaves of it
CallFirst ==
    /\ op = "ready"
    /\ op' = "called"
    /\ output' = [given |-> input.df,
                  first |-> ApplyUpdatesCall(input.df, input.updates).returned,
                  again |-> NoTable, twice |-> NoTable]
    /\ input' = [input EXCEPT !.df = ApplyUpdatesCall(input.df, input.updates).df_clean]
    /\ UNCHANGED <<session, disk, exported, hist, widgets>>

\* the call is made again with the same T and E
CallAgain ==
    /\ op = "called"
    /\ op' = "called_again"
    /\ output' = [output EXCEPT !.again = ApplyUpdatesCall(input.df, input.updates).returned]
    /\ input' = [input EXCEPT !.df = ApplyUpdatesCall(input.df, input.updates).df_clean]
    /\ UNCHANGED <<session, disk, exported, hist, widgets>>

\* E is applied to the result of the first call
CallOnResult ==
    /\ op = "called"
    /\ op' = "reapplied"
    /\ output' = [output EXCEPT !.twice = ApplyUpdatesCall(output.first, input.updates).returned,
                                !.first = ApplyUpdatesCall(output.first, input.updates).df_clean]
    /\ UNCHANGED <<input, session, disk, exported, hist, widgets>>

NextReapply == CallFirst \/ CallAgain \/ CallOnResult

SpecReapply == InitReapply /\ [][NextReapply]_vars

\* C11: apply_updates leaves the table it is given as it was, a second call with
\* the same table and edits returns the same result as the first, and applying the
\* edits to the result of the first call returns that result again.
C11_ArgumentKeptAndIdempotent ==
    /\ op \in {"called", "called_again"} => input.df = output.given
    /\ op = "called_again" => output.again = output.first
    /\ op = "reapplied" => output.twice = output.first

\* the edits changed a row of T and named a position T does not have; T is as it
\* was, and applying them to the result gives the result
C11_Witness ==
    /\ op = "reapplied"
    /\ input.df # <<>>
    /\ output.given = input.df
    /\ Len(output.first) > Len(input.df)
    /\ \E i \in DOMAIN input.df : output.first[i] # input.df[i]
    /\ output.twice = output.first

(***************************************************************************)
(* format_datetime, parse_genius_datetime                                  *)
(* A date is <<year, month, day>>, a time of day <<hour, minute>>.         *)
(***************************************************************************)
\* strftime("%b") in the C locale, and the keys of month_map, in month order
MonthAbbr == << <<"J","a","n">>, <<"F","e","b">>, <<"M","a","r">>, <<"A","p","r">>,
                <<"M","a","y">>, <<"J","u","n">>, <<"J","u","l">>, <<"A","u","g">>,
                <<"S","e","p">>, <<"O","c","t">>, <<"N","o","v">>, <<"D","e","c">> >>

\* str(n) for n >= 0
RECURSIVE Decimal(_)
Decimal(n) == IF n < 10 THEN <<DigitSeq[n + 1]>> ELSE Decimal(n \div 10) \o <<DigitSeq[(n % 10) + 1]>>

\* f"{n:02d}" for n >= 0
Decimal02(n) == IF n < 10 THEN <<"0">> \o Decimal(n) ELSE Decimal(n)

\* int(text) for a run of digits
RECURSIVE ToInt(_)
ToInt(t) ==
    IF t = <<>> THEN 0
    ELSE 10 * ToInt(SubSeq(t, 1, Len(t) - 1)) + (IndexIn(DigitSeq, t[Len(t)]) - 1)

format_datetime(date_value, time_value) ==
    LET month == MonthAbbr[date_value[2]]
        hour == time_value[1]
        minute == time_value[2]
        ampm == IF hour < 12 THEN <<"A","M">> ELSE <<"P","M">>
        hour12 == IF hour % 12 = 0 THEN 12 ELSE hour % 12
    IN  month \o <<" ">> \o Decimal02(date_value[3]) \o <<" ">> \o Decimal(date_value[1])
        \o <<" ", " ">> \o Decimal(hour12) \o <<":">> \o Decimal02(minute) \o ampm

AllIn(t, from, to, Class(_)) == \A i \in from..to : Class(t[i])

\* re.match(r"^([A-Za-z]{3})\s+(\d{1,2})\s+(\d{4})\s{2}(\d{1,2}):(\d{2})(AM|PM)$", text):
\* the ways to cut text into the pattern's pieces, as [s1, d, s2, h], the lengths of
\* the first space run, the day, the second space run and the hour (the other pieces
\* take 14 characters, so a space run is shorter than Len(text) - 16)
DateTimeCuts(text) ==
    { c \in [s1 : 1..(Len(text) - 17), d : 1..2, s2 : 1..(Len(text) - 17), h : 1..2] :
        LET p1 == 3
            p2 == p1 + c.s1
            p3 == p2 + c.d
            p4 == p3 + c.s2
            p5 == p4 + 4
            p6 == p5 + 2
            p7 == p6 + c.h
        IN  /\ Len(text) = p7 + 5
            /\ AllIn(text, 1, p1, IsAsciiLetter)
            /\ AllIn(text, p1 + 1, p2, IsSpace)
            /\ AllIn(text, p2 + 1, p3, IsDigit)
            /\ AllIn(text, p3 + 1, p4, IsSpace)
            /\ AllIn(text, p4 + 1, p5, IsDigit)
            /\ AllIn(text, p5 + 1, p6, IsSpace)
            /\ AllIn(text, p6 + 1, p7, IsDigit)
            /\ text[p7 + 1] = ":"
            /\ AllIn(text, p7 + 2, p7 + 3, IsDigit)
            /\ SubSeq(text, p7 + 4, p7 + 5) \in {<<"A","M">>, <<"P","M">>} }

\* str.title() of a run of letters
Title(t) == [i \in DOMAIN t |-> IF i = 1 THEN UpperChar(t[i]) ELSE LowerChar(t[i])]

\* month_map.get(month_abbr): 0 stands for None
MonthNumber(abbr) ==
    IF \E m \in DOMAIN MonthAbbr : MonthAbbr[m] = abbr
    THEN CHOOSE m \in DOMAIN MonthAbbr : MonthAbbr[m] = abbr
    ELSE 0

IsLeap(year) == (year % 4 = 0 /\ year % 100 # 0) \/ year % 400 = 0

DaysInMonth(year, month) ==
    IF month = 2 THEN (IF IsLeap(year) THEN 29 ELSE 28)
    ELSE IF month \in {4, 6, 9, 11} THEN 30 ELSE 31

\* datetime.date(year, month, day) does not raise ValueError
ValidDate(year, month, day) ==
    /\ year \in 1..9999
    /\ month \in 1..12
    /\ day \in 1..DaysInMonth(year, month)

\* datetime.time(hour, minute) does not raise ValueError
ValidTime(hour, minute) == hour \in 0..23 /\ minute \in 0..59

\* the three outcomes of parse_genius_datetime: None, a (date, time) pair, or the
\* ValueError that date(...) or time(...) raises and nothing catches
ParsedNone == [kind |-> "none", date |-> <<>>, time |-> <<>>]

Parsed(d, t) == [kind |-> "value", date |-> d, time |-> t]

ParseError == [kind |-> "ValueError", date |-> <<>>, time |-> <<>>]

\* the hour of time(hour, minute), from the hour matched and AM or PM
Hour24(hour, ampm) ==
    IF ampm = <<"P","M">> /\ hour # 12 THEN hour + 12
    ELSE IF ampm = <<"A","M">> /\ hour = 12 THEN 0
    ELSE hour

\* lines 119-131: None for an unknown month, else date(...) and time(...)
FromGroups(month, day, year, hour, minute) ==
    IF month = 0 THEN ParsedNone
    ELSE IF ~ValidDate(year, month, day) \/ ~ValidTime(hour, minute) THEN ParseError
    ELSE Parsed(<<year, month, day>>, <<hour, minute>>)

\* the groups of the match whose space runs, day and hour have the lengths of cut c:
\* the day starts after 3 + s1 characters, the year after 3 + s1 + d + s2, the hour
\* after the year and two spaces
MatchGroups(text, c, day_at, year_at, hour_at) ==
    FromGroups(MonthNumber(Title(SubSeq(text, 1, 3))),
               ToInt(SubSeq(text, day_at + 1, day_at + c.d)),
               ToInt(SubSeq(text, year_at + 1, year_at + 4)),
               Hour24(ToInt(SubSeq(text, hour_at + 1, hour_at + c.h)),
                      SubSeq(text, hour_at + c.h + 4, hour_at + c.h + 5)),
               ToInt(SubSeq(text, hour_at + c.h + 2, hour_at + c.h + 3)))

\* lines 98-103: no match, None
MatchText(text, cuts) ==
    IF cuts = {} THEN ParsedNone
    ELSE MatchGroups(text,
                     CHOOSE c \in cuts : TRUE,
                     3 + (CHOOSE c \in cuts : TRUE).s1,
                     3 + (CHOOSE c \in cuts : TRUE).s1 + (CHOOSE c \in cuts : TRUE).d
                       + (CHOOSE c \in cuts : TRUE).s2,
                     9 + (CHOOSE c \in cuts : TRUE).s1 + (CHOOSE c \in cuts : TRUE).d
                       + (CHOOSE c \in cuts : TRUE).s2)

ParseText(text) == MatchText(text, DateTimeCuts(text))

parse_genius_datetime(value) ==
    IF value.absent THEN ParsedNone ELSE ParseText(Strip(value.text))

(***************************************************************************)
(* SpecCodec: format_datetime followed by parse_genius_datetime, and       *)
(* parse_genius_datetime applied to a text                                 *)
(***************************************************************************)
\* dates and times to encode: years of three and of four digits, a leap year, the
\* first, tenth and last day of every month, every hour, minutes of one and two digits
CodecYears == {999, 1000, 2023, 2024}

CodecMinutes == {0, 9, 30, 59}

CodecDates ==
    { x \in CodecYears \X (1..12) \X (1..31) : x[3] \in {1, 10, DaysInMonth(x[1], x[2])} }

CodecTimes == (0..23) \X CodecMinutes

\* texts to decode: every combination of these pieces, and some that match nothing
TextMonths == { <<"J","a","n">>, <<"f","E","B">>, <<"X","y","z">> }
TextDays == { <<"5">>, <<"3","0">>, <<"3","1">>, <<"0","0">> }
TextYears == { <<"2","0","2","4">>, <<"2","0","2","3">>, <<"0","0","0","0">>, <<"9","9","9">> }
TextGaps == { <<" "," ">>, <<" ">> }
TextHours == { <<"3">>, <<"1","2">>, <<"1","3">>, <<"0">> }
TextMinutes == { <<"0","5">>, <<"6","0">>, <<"5">> }
TextMeridiems == { <<"A","M">>, <<"P","M">>, <<"p","m">> }

PiecedTexts(months, gaps) ==
    { mo \o s1 \o d \o <<" ">> \o y \o g \o h \o <<":">> \o mi \o ap :
        mo \in months, s1 \in gaps, d \in TextDays, y \in TextYears, g \in gaps,
        h \in TextHours, mi \in TextMinutes, ap \in TextMeridiems }

OtherTexts ==
    { <<>>, <<" ">>, <<"g","a","r","b","a","g","e">>,
      <<" ","J","a","n"," ","0","5"," ","2","0","2","4"," "," ","3",":","3","0","P","M"," ">>,
      <<"J","a","n"," ","0","5"," ","2","0","2","4"," "," ","3",":","3","0"," ","P","M">> }

DateTimeInputs(dates, times) ==
    {[kind |-> "datetime", date |-> d, time |-> t, value |-> Absent] : d \in dates, t \in times}

TextInputs(texts) ==
    {[kind |-> "text", date |-> <<>>, time |-> <<>>, value |-> Txt(t)] : t \in texts}
    \cup {[kind |-> "text", date |-> <<>>, time |-> <<>>, value |-> Absent]}

InitCodec ==
    \/ PureInit(DateTimeInputs(CodecDates, CodecTimes))
    \/ PureInit(TextInputs(PiecedTexts(TextMonths, TextGaps)))
    \/ PureInit(TextInputs(OtherTexts))

CallFormat ==
    /\ op = "ready"
    /\ input.kind = "datetime"
    /\ op' = "format_datetime"
    /\ output' = format_datetime(input.date, input.time)
    /\ UNCHANGED <<input, session, disk, exported, hist, widgets>>

\* the text format_datetime returned is handed to parse_genius_datetime
CallParseFormatted ==
    /\ op = "format_datetime"
    /\ op' = "round_trip"
    /\ output' = [text |-> output, parsed |-> parse_genius_datetime(Txt(output))]
    /\ UNCHANGED <<input, session, disk, exported, hist, widgets>>

CallParse ==
    /\ op = "ready"
    /\ input.kind = "text"
    /\ op' = "parse_genius_datetime"
    /\ output' = parse_genius_datetime(input.value)
    /\ UNCHANGED <<input, session, disk, exported, hist, widgets>>

NextCodec == CallFormat \/ CallParseFormatted \/ CallParse

SpecCodec == InitCodec /\ [][NextCodec]_vars

\* C7 as stated: for every date and every time of day,
\* parse_genius_datetime(format_datetime(date, time)) is exactly (date, time).
C7_RoundTrip ==
    op = "round_trip" => output.parsed = Parsed(input.date, input.time)

\* the round trip does hold for every date whose year has four digits, with
\* midnight written 12 AM, noon 12 PM and the afternoon hours hour-12 PM
RoundTripFourDigitYears ==
    /\ op = "round_trip" /\ input.date[1] >= 1000 =>
          output.parsed = Parsed(input.date, input.time)
    /\ op = "format_datetime" =>
          LET h == input.time[1]
              n == Len(output)
              clock == SubSeq(output, 10 + Len(Decimal(input.date[1])), n)
          IN  /\ SubSeq(output, n - 1, n) = (IF h < 12 THEN <<"A","M">> ELSE <<"P","M">>)
              /\ h \in {0, 12} => SubSeq(clock, 1, 3) = <<"1","2",":">>
              /\ h \in 13..23 => SubSeq(clock, 1, Len(clock) - 5) = Decimal(h - 12)

\* C8 as stated: parse_genius_datetime returns a (date, time) pair or "no value"
\* for every input and never fails with an error.
C8_ParseNeverFails ==
    op = "parse_genius_datetime" => output.kind \in {"none", "value"}

\* what does hold of the texts that match nothing: they give "no value"
ParseNoneOnMismatch ==
    op = "parse_genius_datetime" =>
        /\ input.value.absent => output = ParsedNone
        /\ (~input.value.absent /\ input.value.text \in OtherTexts
              /\ Len(Strip(input.value.text)) # 19) => output = ParsedNone
        /\ (~input.value.absent /\ Len(input.value.text) >= 3
              /\ SubSeq(input.value.text, 1, 3) = <<"X","y","z">>) =>
              output = ParsedNone

(***************************************************************************)
(* natural_sort_key_joint                                                  *)
(* A key is <<0, prefix, number>> or <<1, orig_index>>.                    *)
(***************************************************************************)
\* "." of a pattern compiled without DOTALL: any character but a line break
IsDot(c) == c # "NL"

\* re.match(r"^([A-Za-z]+)\s*(\d+)$", text): the ways to cut text into a letters,
\* b white-space characters and digits up to the end
Matches1(text) ==
    { m \in [a : 1..Len(text), b : 0..Len(text)] :
        /\ m.a + m.b < Len(text)
        /\ AllIn(text, 1, m.a, IsAsciiLetter)
        /\ AllIn(text, m.a + 1, m.a + m.b, IsSpace)
        /\ AllIn(text, m.a + m.b + 1, Len(text), IsDigit) }

\* the pattern ([A-Za-z]+).*?(\d+) tried at position from + 1: a letters, then g
\* characters, then d digits; nothing is asked of what follows
MatchesAt(text, from) ==
    { m \in [s : {from}, a : 1..Len(text), g : 0..Len(text), d : 1..Len(text)] :
        /\ from + m.a + m.g + m.d <= Len(text)
        /\ AllIn(text, from + 1, from + m.a, IsAsciiLetter)
        /\ AllIn(text, from + m.a + 1, from + m.a + m.g, IsDot)
        /\ AllIn(text, from + m.a + m.g + 1, from + m.a + m.g + m.d, IsDigit) }

\* the match the backtracking search returns: the first start, then [A-Za-z]+ as long
\* as can be, then .*? as short as can be, then \d+ as long as can be
Preferred(M) ==
    CHOOSE m \in M : \A n \in M :
        \/ m.s < n.s
        \/ m.s = n.s /\ m.a > n.a
        \/ m.s = n.s /\ m.a = n.a /\ m.g < n.g
        \/ m.s = n.s /\ m.a = n.a /\ m.g = n.g /\ m.d >= n.d

\* re.match(r"^([A-Za-z]+).*?(\d+)", text): tried at the start of text only
Matches2(text) == MatchesAt(text, 0)

\* re.search of the same pattern without ^: tried at every position
Searches2(text) == UNION {MatchesAt(text, from) : from \in 0..Len(text)}

KeyOfMatch2(text, m) ==
    <<0, Lower(SubSeq(text, m.s + 1, m.s + m.a)),
         ToInt(SubSeq(text, m.s + m.a + m.g + 1, m.s + m.a + m.g + m.d))>>

\* a variant whose second pattern is searched for anywhere in the label
natural_sort_key_joint_search(value, orig_index) ==
    IF value.absent THEN <<1, orig_index>>
    ELSE LET text == Strip(value.text)
         IN  IF Matches1(text) # {}
             THEN LET m == CHOOSE x \in Matches1(text) : TRUE
                  IN  <<0, Lower(SubSeq(text, 1, m.a)),
                           ToInt(SubSeq(text, m.a + m.b + 1, Len(text)))>>
             ELSE IF Searches2(text) # {}
                  THEN KeyOfMatch2(text, Preferred(Searches2(text)))
                  ELSE <<1, orig_index>>

natural_sort_key_joint(value, orig_index) ==
    IF value.absent THEN <<1, orig_index>>
    ELSE LET text == Strip(value.text)
         IN  IF Matches1(text) # {}
             THEN LET m == CHOOSE x \in Matches1(text) : TRUE
                  IN  <<0, Lower(SubSeq(text, 1, m.a)),
                           ToInt(SubSeq(text, m.a + m.b + 1, Len(text)))>>
             ELSE IF Matches2(text) # {}
                  THEN KeyOfMatch2(text, Preferred(Matches2(text)))
                  ELSE <<1, orig_index>>

(***************************************************************************)
(* sorted_group                                                            *)
(***************************************************************************)
\* str < str on lower-case ASCII letters: by code point, a proper prefix first
RECURSIVE StrLess(_, _)
StrLess(x, y) ==
    IF y = <<>> THEN FALSE
    ELSE IF x = <<>> THEN TRUE
    ELSE IF Head(x) # Head(y) THEN IndexIn(LowerSeq, Head(x)) < IndexIn(LowerSeq, Head(y))
    ELSE StrLess(Tail(x), Tail(y))

\* tuple < tuple on keys: the first element that differs decides
KeyLess(k1, k2) ==
    IF k1[1] # k2[1] THEN k1[1] < k2[1]
    ELSE IF k1[1] = 1 THEN k1[2] < k2[2]
    ELSE IF k1[2] # k2[2] THEN StrLess(k1[2], k2[2])
    ELSE k1[3] < k2[3]

\* the _sort_key column, one row
SortKey(row) == natural_sort_key_joint(row.OperationDescription1, row.orig_index)

\* merging two sorted runs; on equal keys the row of the left run goes first
RECURSIVE Merge(_, _)
Merge(left, right) ==
    IF left = <<>> THEN right
    ELSE IF right = <<>> THEN left
    ELSE IF KeyLess(SortKey(Head(right)), SortKey(Head(left)))
         THEN <<Head(right)>> \o Merge(left, Tail(right))
         ELSE <<Head(left)>> \o Merge(Tail(left), right)

\* sort_values(by="_sort_key", kind="mergesort"): a stable merge sort
RECURSIVE MergeSort(_)
MergeSort(rows) ==
    IF Len(rows) <= 1 THEN rows
    ELSE LET half == Len(rows) \div 2
         IN  Merge(MergeSort(SubSeq(rows, 1, half)), MergeSort(SubSeq(rows, half + 1, Len(rows))))

\* a slip: the number of a key compared as text, so that 10 sorts before 2
RECURSIVE DigitsLess(_, _)
DigitsLess(x, y) ==
    IF y = <<>> THEN FALSE
    ELSE IF x = <<>> THEN TRUE
    ELSE IF Head(x) # Head(y) THEN IndexIn(DigitSeq, Head(x)) < IndexIn(DigitSeq, Head(y))
    ELSE DigitsLess(Tail(x), Tail(y))

KeyLessLexical(k1, k2) ==
    IF k1[1] = 0 /\ k2[1] = 0 /\ k1[2] = k2[2]
    THEN DigitsLess(Decimal(k1[3]), Decimal(k2[3]))
    ELSE KeyLess(k1, k2)

RECURSIVE MergeLexical(_, _)
MergeLexical(left, right) ==
    IF left = <<>> THEN right
    ELSE IF right = <<>> THEN left
    ELSE IF KeyLessLexical(SortKey(Head(right)), SortKey(Head(left)))
         THEN <<Head(right)>> \o MergeLexical(left, Tail(right))
         ELSE <<Head(left)>> \o MergeLexical(Tail(left), right)

RECURSIVE MergeSortLexical(_)
MergeSortLexical(rows) ==
    IF Len(rows) <= 1 THEN rows
    ELSE LET half == Len(rows) \div 2
         IN  MergeLexical(MergeSortLexical(SubSeq(rows, 1, half)),
                          MergeSortLexical(SubSeq(rows, half + 1, Len(rows))))

sorted_group_lexical(df_group) == MergeSortLexical(df_group)

sorted_group(df_group) == MergeSort(df_group)

(***************************************************************************)
(* SpecSort: natural_sort_key_joint applied to a label, and sorted_group   *)
(* applied to the rows of one (job, operation, field) group                *)
(***************************************************************************)
MaxLabelLen == 4
MaxGroupRows == 4

\* labels for the key: every text over these characters, up to MaxLabelLen
LabelAlphabet == {"A", "b", "1", "0", " ", "-", "NL"}

KeyLabels(maxLen) == {Absent} \cup {Txt(t) : t \in TextsUpTo(LabelAlphabet, maxLen)}

KeyPositions == {0, 4}

KeyInputs(maxLen) ==
    {[fn |-> "key", value |-> v, pos |-> i, df |-> <<>>] : v \in KeyLabels(maxLen), i \in KeyPositions}

\* groups: rows in raw order (positions 1, 3, 5, ...), each with one of these labels
GroupLabels ==
    { Txt(<<"B","2">>), Txt(<<"A","1","0">>), Txt(<<"A","2">>), Txt(<<"a"," ","2">>),
      Txt(<<"f","o","o">>), Absent }

GroupRow(k, label) ==
    WithOrigIndex(RawRow(2 * k - 1, "J1", label, Txt(<<"s","o","u">>), Txt(<<"s","c","h">>), Absent))

Groups(maxRows) ==
    UNION { { [k \in 1..n |-> GroupRow(k, labels[k])] : labels \in [1..n -> GroupLabels] } :
            n \in 0..maxRows }

GroupInputs(maxRows) == {[fn |-> "group", value |-> Absent, pos |-> 0, df |-> g] : g \in Groups(maxRows)}

InitSort ==
    \/ PureInit(KeyInputs(MaxLabelLen))
    \/ PureInit(GroupInputs(MaxGroupRows))

CallSortKey ==
    /\ op = "ready"
    /\ input.fn = "key"
    /\ op' = "natural_sort_key_joint"
    /\ output' = natural_sort_key_joint(input.value, input.pos)
    /\ UNCHANGED <<input, session, disk, exported, hist, widgets>>

CallSortedGroup ==
    /\ op = "ready"
    /\ input.fn = "group"
    /\ op' = "sorted_group"
    /\ output' = sorted_group(input.df)
    /\ UNCHANGED <<input, session, disk, exported, hist, widgets>>

NextSort == CallSortKey \/ CallSortedGroup

SpecSort == InitSort /\ [][NextSort]_vars

\* the number of letters a text begins with
LeadingLetters(t) ==
    CHOOSE n \in 0..Len(t) :
        AllIn(t, 1, n, IsAsciiLetter) /\ (n < Len(t) => ~IsAsciiLetter(t[n + 1]))

\* the positions after the leading letters that hold a digit
DigitsAfter(t, a) == {p \in (a + 1)..Len(t) : IsDigit(t[p])}

Least(S) == CHOOSE x \in S : \A y \in S : x <= y

\* the end of the run of digits that starts at p
RunEnd(t, p) == CHOOSE e \in p..Len(t) : AllIn(t, p, e, IsDigit) /\ (e < Len(t) => ~IsDigit(t[e + 1]))

\* the key as the amended claim states it
StatedKey(value, pos) ==
    IF value.absent THEN <<1, pos>>
    ELSE LET t == Strip(value.text)
             a == LeadingLetters(t)
             rest == SubSeq(t, a + 1, Len(t))
             digits == LStrip(rest)
         IN  IF a = 0 \/ DigitsAfter(t, a) = {} THEN <<1, pos>>
             ELSE IF AllIn(digits, 1, Len(digits), IsDigit)
                  THEN <<0, Lower(SubSeq(t, 1, a)), ToInt(digits)>>
                  ELSE LET p == Least(DigitsAfter(t, a))
                       IN  IF \E q \in (a + 1)..(p - 1) : t[q] = "NL" THEN <<1, pos>>
                           ELSE <<0, Lower(SubSeq(t, 1, a)), ToInt(SubSeq(t, p, RunEnd(t, p)))>>

\* C9, amended: the key is (0, lowercase(letters), integer(digits)) for a label that,
\* once trimmed, is letters + optional white space + digits in full, and for a label
\* that, once trimmed, begins with letters followed later on the same line by digits
\* (letters: the whole leading run; digits: the first run of digits after it); it is
\* (1, position) for every other label, absent or not.
C9_KeyOfLabel ==
    op = "natural_sort_key_joint" => output = StatedKey(input.value, input.pos)

\* a label beginning with letters, then a dash, then digits gets a group-0 key, and
\* the same letters and digits after a leading digit would not (see C9_LettersAnywhere)
C9_Witness ==
    /\ op = "natural_sort_key_joint"
    /\ input.value = Txt(<<"A","b","-","1">>)
    /\ output = <<0, <<"a","b">>, 1>>

\* C9 as stated: a label that holds a run of letters followed anywhere later by a
\* run of digits, wherever the letters are, gets a group-0 key, and (1, position) is
\* returned only for an absent label or one with no letters-then-digits pattern.
C9_LettersAnywhere ==
    op = "natural_sort_key_joint" =>
        LET t == input.value.text
            pattern == /\ ~input.value.absent
                       /\ \E i, j \in DOMAIN t : i < j /\ IsAsciiLetter(t[i]) /\ IsDigit(t[j])
        IN  (output[1] = 0) <=> pattern

\* text <= text as the claim states it: equal, a proper prefix, or smaller at the
\* first character that differs
PrefixLE(x, y) ==
    \/ x = y
    \/ \E i \in 1..(Len(y)) :
          /\ i - 1 <= Len(x)
          /\ SubSeq(x, 1, i - 1) = SubSeq(y, 1, i - 1)
          /\ \/ Len(x) = i - 1
             \/ Len(x) >= i /\ IndexIn(LowerSeq, x[i]) < IndexIn(LowerSeq, y[i])

\* the order of two keys as the claim states it
KeyLE(k1, k2) ==
    \/ k1[1] = 0 /\ k2[1] = 1
    \/ k1[1] = 0 /\ k2[1] = 0 /\ k1[2] # k2[2] /\ PrefixLE(k1[2], k2[2])
    \/ k1[1] = 0 /\ k2[1] = 0 /\ k1[2] = k2[2] /\ k1[3] <= k2[3]
    \/ k1[1] = 1 /\ k2[1] = 1 /\ k1[2] <= k2[2]

PlaceIn(df, row) == CHOOSE i \in DOMAIN df : df[i] = row

LabelsOf(df) == [i \in DOMAIN df |-> df[i].OperationDescription1]

\* C10: sorted_group returns the rows of the group as a permutation ordered by key:
\* group 0 before group 1, group 0 by lower-case prefix and then by the number as an
\* integer, group 1 by original position, and rows with the same key in input order.
C10_SortedByKey ==
    op = "sorted_group" =>
        /\ Len(output) = Len(input.df)
        /\ RangeOf(output) = RangeOf(input.df)
        /\ \A j, k \in DOMAIN output : j < k =>
              /\ KeyLE(SortKey(output[j]), SortKey(output[k]))
              /\ SortKey(output[j]) = SortKey(output[k]) =>
                    PlaceIn(input.df, output[j]) < PlaceIn(input.df, output[k])

\* the labels B2, A10, A2, foo come out as A2, A10, B2, foo
C10_Witness ==
    /\ op = "sorted_group"
    /\ LabelsOf(input.df) = <<Txt(<<"B","2">>), Txt(<<"A","1","0">>), Txt(<<"A","2">>),
                              Txt(<<"f","o","o">>)>>
    /\ LabelsOf(output) = <<Txt(<<"A","2">>), Txt(<<"A","1","0">>), Txt(<<"B","2">>),
                            Txt(<<"f","o","o">>)>>

(***************************************************************************)
(* Exports and save_to_disk.  What is written is a sequence of rows, each  *)
(* the row's cells in the order of original_columns; the index and the     *)
(* orig_index column are not written.                                      *)
(***************************************************************************)
\* row[column]
Cell(row, column) ==
    CASE column = "Job" -> row.Job
      [] column = "MK" -> row.MK
      [] column = "ISO" -> row.ISO
      [] column = "Operation Description1" -> row.OperationDescription1
      [] column = "OperationCode" -> row.OperationCode
      [] column = "CustomFieldName" -> row.CustomFieldName
      [] column = "CustomFieldValue" -> row.CustomFieldValue
      [] column = "ItemCode" -> row.ItemCode
      [] column = "StepOrder" -> row.StepOrder
      [] column = "BomVersionId" -> row.BomVersionId

\* df.drop(columns=["_orig_index"])[original_columns], written with index=False
Written(df, original_columns) ==
    [i \in DOMAIN df |-> [k \in DOMAIN original_columns |-> Cell(df[i], original_columns[k])]]

export_bytes(df_clean, sheet_name, original_columns) ==
    [sheet_name |-> sheet_name, rows |-> Written(df_clean, original_columns)]

\* a slip: every row is written, filled or not
export_genius_bytes_unfiltered(df_clean, sheet_name, original_columns) ==
    [sheet_name |-> sheet_name, rows |-> Written(df_clean, original_columns)]

export_genius_bytes(df_clean, sheet_name, original_columns) ==
    LET genius_df == BoolIndex(df_clean,
                               [i \in DOMAIN df_clean |-> has_value(df_clean[i].CustomFieldValue)])
    IN  [sheet_name |-> sheet_name, rows |-> Written(genius_df, original_columns)]

\* save_to_disk: ValueError without a path, OSError when the write fails (io_ok is
\* the file system's answer), the file otherwise
save_to_disk(df_clean, path, sheet_name, original_columns, io_ok, old_disk) ==
    IF path \in {"", "None"} THEN [raised |-> TRUE, disk |-> old_disk]
    ELSE IF ~io_ok THEN [raised |-> TRUE, disk |-> old_disk]
    ELSE [raised |-> FALSE,
          disk |-> [written |-> TRUE, rows |-> Written(df_clean, original_columns),
                    sheet_name |-> sheet_name]]

(***************************************************************************)
(* build_ui                                                                *)
(***************************************************************************)
\* unique_in_order: the values that are not None or NaN (written nan here), each
\* once, in order of first appearance
unique_in_order(values, nan) ==
    BoolIndex(values, [i \in DOMAIN values |->
                          /\ values[i] # nan
                          /\ \A j \in 1..(i - 1) : values[j] # values[i]])

\* NaN in the Job column, whose values are atoms
NaNJob == "NaN"

RECURSIVE Flatten(_)
Flatten(ss) == IF ss = <<>> THEN <<>> ELSE Head(ss) \o Flatten(Tail(ss))

DATE_FIELD == Txt(<<"D","a","t","e","T","e","r","m","i","n","e">>)

\* date_mask of build_ui, one row
IsDateRow(row) == normalize_text(row.CustomFieldName) = normalize_text(DATE_FIELD)

\* str(current_value) of a text input: "" for a missing value
Shown(value) == IF value.absent THEN <<>> ELSE value.text

\* the value the text input of row idx returns: what the operator typed there in
\* this run, or the value shown
NewValue(row, typed) ==
    IF typed.some /\ typed.idx = row.idx THEN typed.text ELSE Shown(row.CustomFieldValue)

\* existing_value of build_ui: the first value of the date rows that is not empty
\* once trimmed, as a sequence of at most one text
ExistingValue(df_date) ==
    LET present == SelectSeq(df_date, LAMBDA r : has_value(r.CustomFieldValue))
    IN  IF present = <<>> THEN <<>> ELSE <<Strip(present[1].CustomFieldValue.text)>>

\* the date part of build_ui for one operation: the edits it adds
DateEdits(df_date, dt) ==
    IF df_date = <<>> \/ ~dt.apply THEN <<>>
    ELSE LET formatted == Txt(format_datetime(dt.date, dt.time))
             changed == SelectSeq(df_date, LAMBDA r : r.CustomFieldValue # formatted)
         IN  [k \in DOMAIN changed |-> <<changed[k].idx, formatted>>]

\* the text inputs of one field of one operation, in sorted_group order
FieldEdits(df_field, typed) ==
    LET rows == sorted_group(df_field)
        changed == SelectSeq(rows, LAMBDA r : NewValue(r, typed) # Shown(r.CustomFieldValue))
    IN  [k \in DOMAIN changed |-> <<changed[k].idx, Txt(NewValue(changed[k], typed))>>]

\* the body of the loop over op_codes
OperationEdits(df_op, typed, dt) ==
    LET df_date == SelectSeq(df_op, IsDateRow)
        other_fields == SelectSeq(df_op, LAMBDA r : ~IsDateRow(r))
        field_names == unique_in_order([i \in DOMAIN other_fields |-> other_fields[i].CustomFieldName],
                                       Absent)
    IN  DateEdits(df_date, dt)
        \o Flatten([f \in DOMAIN field_names |->
                      FieldEdits(SelectSeq(other_fields,
                                           LAMBDA r : r.CustomFieldName = field_names[f]), typed)])

\* parse_genius_datetime(existing_value.iloc[0]) raises in the date part of some operation
DefaultsRaise(df_job, op_codes) ==
    \E o \in DOMAIN op_codes :
        LET df_date == SelectSeq(df_job, LAMBDA r : r.OperationCode = op_codes[o] /\ IsDateRow(r))
            existing == ExistingValue(df_date)
        IN  existing # <<>> /\ parse_genius_datetime(Txt(existing[1])) = ParseError

\* the rows of the selected job that get a text input
TextInputRows(df_clean, selected_job) ==
    SelectSeq(df_clean, LAMBDA r : /\ r.Job = selected_job
                                   /\ ~r.OperationCode.absent
                                   /\ ~r.CustomFieldName.absent
                                   /\ ~IsDateRow(r))

\* the rows of the selected job that the date widgets of their operation fill
DateRows(df_clean, selected_job) ==
    SelectSeq(df_clean, LAMBDA r : r.Job = selected_job /\ ~r.OperationCode.absent /\ IsDateRow(r))

\* build_ui: the edits of this run, or the ValueError of parse_genius_datetime
build_ui(df_clean, selected_job, typed, dt) ==
    LET df_job == SelectSeq(df_clean, LAMBDA r : r.Job = selected_job)
        op_codes == unique_in_order([i \in DOMAIN df_job |-> df_job[i].OperationCode], Absent)
    IN  IF df_job = <<>> THEN [raised |-> FALSE, updates |-> <<>>]
        ELSE IF DefaultsRaise(df_job, op_codes) THEN [raised |-> TRUE, updates |-> <<>>]
        ELSE [raised |-> FALSE,
              updates |-> Flatten([o \in DOMAIN op_codes |->
                            OperationEdits(SelectSeq(df_job, LAMBDA r : r.OperationCode = op_codes[o]),
                                           typed, dt)])]

(***************************************************************************)
(* The files the operator can pick, and load_excel                         *)
(***************************************************************************)
Sou == Txt(<<"S","O","U">>)

Sch == Txt(<<"s","c","h">>)

\* good_a: for job J1 a date row, a filled row and an "ass" target, which clean_df
\* drops, and a row of field "sch"; for job J2 a row with no field name
RawGoodA ==
    << RawRow(0, "J1", Txt(<<"x">>), Sou, DATE_FIELD, Absent),
       RawRow(1, "J1", Txt(<<"A","1","0">>), Sou, Sch, Txt(<<"f">>)),
       RawRow(2, "J1", Txt(<<"A","2">>), Txt(<<"A","S","S">>), Txt(<<"S","c","h">>), Absent),
       RawRow(3, "J1", Txt(<<"A","2">>), Sou, Sch, Absent),
       RawRow(4, "J2", Txt(<<"B","1">>), Sou, Absent, Txt(<<" ">>)) >>

\* good_b: a filled row and one empty row for job J3, columns in another order
RawGoodB ==
    << RawRow(0, "J3", Txt(<<"C","1">>), Sou, Sch, Txt(<<"7">>)),
       RawRow(1, "J3", Txt(<<"C","2">>), Sou, Sch, Absent) >>

\* all_filled: every row has a value, so the working table is empty
RawAllFilled == << RawRow(0, "J4", Txt(<<"D","1">>), Sou, Sch, Txt(<<"1">>)) >>

ColumnsB == <<"CustomFieldValue", "Job", "MK", "ISO", "Operation Description1",
              "OperationCode", "CustomFieldName", "ItemCode", "StepOrder", "BomVersionId">>

ColumnsNoValue == <<"Job", "MK", "ISO", "Operation Description1", "OperationCode",
                    "CustomFieldName", "ItemCode", "StepOrder", "BomVersionId">>

SourceIds == {"good_a", "good_b", "all_filled", "corrupt", "no_value_column"}

\* load_excel: the first sheet and its name, or the exception ExcelFile raises
load_excel(file_or_path) ==
    CASE file_or_path = "good_a" ->
            [raised |-> FALSE, df |-> RawGoodA, sheet_name |-> "Feuil1", columns |-> REQUIRED_COLS]
      [] file_or_path = "good_b" ->
            [raised |-> FALSE, df |-> RawGoodB, sheet_name |-> "Export", columns |-> ColumnsB]
      [] file_or_path = "all_filled" ->
            [raised |-> FALSE, df |-> RawAllFilled, sheet_name |-> "Feuil1", columns |-> REQUIRED_COLS]
      [] file_or_path = "no_value_column" ->
            [raised |-> FALSE, df |-> <<>>, sheet_name |-> "Feuil1", columns |-> ColumnsNoValue]
      [] OTHER ->
            [raised |-> TRUE, df |-> <<>>, sheet_name |-> "None", columns |-> <<>>]

(***************************************************************************)
(* main(): one run of the page.  The widgets' values are the arguments:    *)
(* mode (the radio), source and path_ok (the file and save-path widgets),  *)
(* job_pick (the select box), typed (the one text input the operator       *)
(* changed, if any), dt (the date check box and pickers), click_save, and  *)
(* io_ok (whether the file system lets save_to_disk write).                *)
(***************************************************************************)
Modes == {"Nouveau document", "Continuer (reprendre la derniere fois)"}

\* lines 370-376: a change of mode clears the session
ModeStep(s, mode) ==
    IF s.mode # mode
    THEN [s EXCEPT !.mode = mode, !.df_clean = NoneFrame, !.loaded_source_id = "None",
                   !.selected_job = "None", !.updates = EmptyUpdates, !.save_path = "None"]
    ELSE s

\* lines 378-467: the save path the widgets give
PathStep(s, source, path_ok) ==
    IF source = "None" THEN s
    ELSE [s EXCEPT !.save_path = IF path_ok THEN "work.xlsx" ELSE ""]

\* a slip: the source is marked as loaded before its columns are checked
LoadStepEager(s, source) ==
    LET loaded == load_excel(source)
        missing == SelectSeq(REQUIRED_COLS, LAMBDA c : c \notin RangeOf(loaded.columns))
    IN  IF loaded.raised THEN [outcome |-> "load_error", session |-> s]
        ELSE IF missing # <<>>
             THEN [outcome |-> "missing_cols",
                   session |-> [s EXCEPT !.loaded_source_id = source,
                                         !.sheet_name = loaded.sheet_name]]
             ELSE [outcome |-> "ok",
                   session |-> [s EXCEPT !.df_clean = Frame(clean_df(loaded.df)),
                                         !.sheet_name = loaded.sheet_name,
                                         !.original_columns = loaded.columns,
                                         !.loaded_source_id = source,
                                         !.selected_job = "None",
                                         !.updates = EmptyUpdates]]

\* lines 471-486: the load of a source that is not the loaded one
LoadStep(s, source) ==
    LET loaded == load_excel(source)
        missing == SelectSeq(REQUIRED_COLS, LAMBDA c : c \notin RangeOf(loaded.columns))
    IN  IF loaded.raised THEN [outcome |-> "load_error", session |-> s]
        ELSE IF missing # <<>> THEN [outcome |-> "missing_cols", session |-> s]
        ELSE [outcome |-> "ok",
              session |-> [s EXCEPT !.df_clean = Frame(clean_df(loaded.df)),
                                    !.sheet_name = loaded.sheet_name,
                                    !.original_columns = loaded.columns,
                                    !.loaded_source_id = source,
                                    !.selected_job = "None",
                                    !.updates = EmptyUpdates]]

\* what a run leaves behind: the session, the file on disk, the downloads the page
\* offers (none when the run returns before the export buttons), the record of the
\* load attempt, and whether the editing widgets were rendered
Outcome(s, d, e, h, rendered) ==
    [session |-> s, disk |-> d, exported |-> e, hist |-> h, rendered |-> rendered]

\* lines 547-577: the two download buttons
Exports(s) ==
    [made |-> TRUE,
     full |-> export_bytes(s.df_clean.rows, s.sheet_name, s.original_columns).rows,
     genius |-> export_genius_bytes(s.df_clean.rows, s.sheet_name, s.original_columns).rows,
     frame |-> s.df_clean.rows,
     columns |-> s.original_columns]

\* lines 534-545: the save button, whose exception is caught
SaveButton(s, d, h, click_save, io_ok) ==
    Outcome(s,
            IF click_save
            THEN save_to_disk(s.df_clean.rows, s.save_path, s.sheet_name, s.original_columns,
                              io_ok, d).disk
            ELSE d,
            Exports(s), h, TRUE)

\* lines 521-532: the auto-save after a change of job, whose exception ends the run
AutoSave(s, saved, d, h, click_save, io_ok) ==
    IF saved.raised THEN Outcome(s, d, NoExport, h, TRUE)
    ELSE SaveButton([s EXCEPT !.job_changed = FALSE], saved.disk, h, click_save, io_ok)

\* a slip: the table is classified again after the edits are applied
ApplyEditsReclassify(s, ui, d, h, click_save, io_ok) ==
    IF ui.raised THEN Outcome(s, d, NoExport, h, FALSE)
    ELSE AutoSave([s EXCEPT !.updates = ui.updates,
                            !.df_clean = Frame(clean_df(apply_updates(s.df_clean.rows, ui.updates)))],
                  IF s.job_changed /\ s.save_path \notin {"", "None"}
                  THEN save_to_disk(clean_df(apply_updates(s.df_clean.rows, ui.updates)),
                                    s.save_path, s.sheet_name, s.original_columns, io_ok, d)
                  ELSE [raised |-> FALSE, disk |-> d],
                  d, h, click_save, io_ok)

\* lines 516-519: the edits of the run are stored and applied
ApplyEdits(s, ui, d, h, click_save, io_ok) ==
    IF ui.raised THEN Outcome(s, d, NoExport, h, FALSE)
    ELSE AutoSave([s EXCEPT !.updates = ui.updates,
                            !.df_clean = Frame(apply_updates(s.df_clean.rows, ui.updates))],
                  IF s.job_changed /\ s.save_path \notin {"", "None"}
                  THEN save_to_disk(apply_updates(s.df_clean.rows, ui.updates), s.save_path,
                                    s.sheet_name, s.original_columns, io_ok, d)
                  ELSE [raised |-> FALSE, disk |-> d],
                  d, h, click_save, io_ok)

\* lines 516-577: the editing page, from build_ui to the two exports
PageStep(s, d, h, selected_job, typed, dt, click_save, io_ok) ==
    ApplyEdits([s EXCEPT !.selected_job = selected_job],
               build_ui(s.df_clean.rows, selected_job, typed, dt),
               d, h, click_save, io_ok)

Jobs(df_clean) == unique_in_order([i \in DOMAIN df_clean |-> df_clean[i].Job], NaNJob)

\* lines 502-514: the select box shows the job picked, else the session's, else the first
SelectBox(s, jobs, job_pick) ==
    IF job_pick \in RangeOf(jobs) THEN job_pick
    ELSE IF s.selected_job \in RangeOf(jobs) THEN s.selected_job
    ELSE jobs[1]

\* lines 488-514: no table, no job, or the editing page
JobStep(s, jobs, d, h, job_pick, typed, dt, click_save, io_ok) ==
    IF s.df_clean.none \/ jobs = <<>> THEN Outcome(s, d, NoExport, h, FALSE)
    ELSE PageStep(s, d, h, SelectBox(s, jobs, job_pick), typed, dt, click_save, io_ok)

\* the record of the run's load attempt: its outcome, the session as it was when the
\* attempt began, and the index of the table the last successful load produced
History(load, before, h0) ==
    [load |-> load.outcome,
     before |-> before,
     ingested |-> IF load.outcome = "ok" THEN IndexOf(load.session.df_clean.rows)
                  ELSE IF load.session.df_clean.none THEN {} ELSE h0.ingested]

\* lines 469-492: a failed load ends the run
AfterLoad(load, before, d, h0, job_pick, typed, dt, click_save, io_ok) ==
    IF load.outcome \in {"load_error", "missing_cols"}
    THEN Outcome(load.session, d, NoExport, History(load, before, h0), FALSE)
    ELSE JobStep(load.session, Jobs(load.session.df_clean.rows), d, History(load, before, h0),
                 job_pick, typed, dt, click_save, io_ok)

\* line 469: a source, a save path, and a source that is not the loaded one
Attempt(s, source) ==
    /\ source # "None"
    /\ s.save_path \notin {"", "None"}
    /\ s.loaded_source_id # source

\* lines 469-486
LoadAttempt(s, d, h0, source, job_pick, typed, dt, click_save, io_ok) ==
    AfterLoad(IF Attempt(s, source) THEN LoadStep(s, source)
              ELSE [outcome |-> "skipped", session |-> s],
              IF Attempt(s, source) THEN s ELSE init_session_state,
              d, h0, job_pick, typed, dt, click_save, io_ok)

\* main()
Main(s0, d, h0, mode, source, path_ok, job_pick, typed, dt, click_save, io_ok) ==
    LoadAttempt(PathStep(ModeStep(s0, mode), source, path_ok), d, h0, source, job_pick,
                typed, dt, click_save, io_ok)

(***************************************************************************)
(* Spec: the session.  Every action is one run of main(), started by one   *)
(* thing the operator does to the page.                                    *)
(***************************************************************************)
\* what the operator can type into a text input
TypedTexts == {<<"v">>}

\* what the operator can set the date widgets to
DateChoices ==
    { DateOff, [apply |-> TRUE, date |-> <<2024, 1, 5>>, time |-> <<15, 30>>] }

NoTyping == [some |-> FALSE, idx |-> 0, text |-> <<>>]

Init ==
    /\ op = "session"
    /\ input = "none"
    /\ output = "none"
    /\ SessionIdle

\* the state a run of main() leaves
Rerun(r, source, path_ok, dt) ==
    /\ session' = r.session
    /\ disk' = r.disk
    /\ exported' = r.exported
    /\ hist' = r.hist
    /\ widgets' = [source |-> source, path_ok |-> path_ok, dt |-> dt, rendered |-> r.rendered]
    /\ UNCHANGED <<op, input, output>>

\* one run of main() with the widgets as given; job_changed is what on_change set
Run(mode, source, path_ok, job_pick, job_changed, typed, dt, click_save, io_ok) ==
    Rerun(Main(IF job_changed THEN [session EXCEPT !.job_changed = TRUE] ELSE session,
               disk, hist, mode, source, path_ok, job_pick, typed, dt, click_save, io_ok),
          source, path_ok, dt)

\* the page is opened: the radio shows its first option
OpenPage ==
    /\ op = "session"
    /\ session.mode = "None"
    /\ Run("Nouveau document", "None", TRUE, "None", FALSE, NoTyping, DateOff, FALSE, TRUE)

\* the operator picks the other mode; its file widgets show a file or none
PickMode ==
    /\ op = "session"
    /\ session.mode # "None"
    /\ \E mode \in Modes \ {session.mode}, source \in SourceIds \cup {"None"} :
          Run(mode, source, TRUE, "None", FALSE, NoTyping, widgets.dt, FALSE, TRUE)

\* the operator picks another file, or removes the file
PickSource ==
    /\ op = "session"
    /\ session.mode # "None"
    /\ \E source \in (SourceIds \cup {"None"}) \ {widgets.source} :
          Run(session.mode, source, widgets.path_ok, "None", FALSE, NoTyping, widgets.dt, FALSE, TRUE)

\* the operator empties the save path field, or fills it again
EditSavePath ==
    /\ op = "session"
    /\ session.mode # "None"
    /\ widgets.source # "None"
    /\ Run(session.mode, widgets.source, ~widgets.path_ok, "None", FALSE, NoTyping,
           widgets.dt, FALSE, TRUE)

\* the operator selects another job: on_change sets job_changed, then the page runs
SelectJob ==
    /\ op = "session"
    /\ widgets.rendered
    /\ \E job \in RangeOf(Jobs(session.df_clean.rows)) \ {session.selected_job},
          io_ok \in BOOLEAN :
          Run(session.mode, widgets.source, widgets.path_ok, job, TRUE, NoTyping,
              widgets.dt, FALSE, io_ok)

\* the operator changes the text of one text input
TypeValue ==
    /\ op = "session"
    /\ widgets.rendered
    /\ \E row \in RangeOf(TextInputRows(session.df_clean.rows, session.selected_job)),
          text \in TypedTexts :
          /\ text # Shown(row.CustomFieldValue)
          /\ Run(session.mode, widgets.source, widgets.path_ok, "None", FALSE,
                 [some |-> TRUE, idx |-> row.idx, text |-> text], widgets.dt, FALSE, TRUE)

\* the operator ticks or unticks the date check box, or picks another date
SetDate ==
    /\ op = "session"
    /\ widgets.rendered
    /\ DateRows(session.df_clean.rows, session.selected_job) # <<>>
    /\ \E dt \in DateChoices \ {widgets.dt} :
          Run(session.mode, widgets.source, widgets.path_ok, "None", FALSE, NoTyping, dt, FALSE, TRUE)

\* the operator presses "Sauvegarder maintenant"
ClickSave ==
    /\ op = "session"
    /\ widgets.rendered
    /\ \E io_ok \in BOOLEAN :
          Run(session.mode, widgets.source, widgets.path_ok, "None", FALSE, NoTyping,
              widgets.dt, TRUE, io_ok)

Next ==
    \/ OpenPage
    \/ PickMode
    \/ PickSource
    \/ EditSavePath
    \/ SelectJob
    \/ TypeValue
    \/ SetDate
    \/ ClickSave

Spec == Init /\ [][Next]_vars

(***************************************************************************)
(* Properties of the session                                               *)
(***************************************************************************)
\* the rows of the working table that hold a value
FilledRows(df) == SelectSeq(df, LAMBDA r : has_value(r.CustomFieldValue))

\* C4: while a source is loaded, whatever the operator edits, saves or selects, the
\* set of original positions of the session's working table is the set that clean_df
\* produced from the raw table of that source when it was loaded; every row carries
\* its own position once, and rows that an edit has filled are still there.
C4_PositionsFixedAfterLoad ==
    ~session.df_clean.none =>
        /\ IndexOf(session.df_clean.rows) = hist.ingested
        /\ IndexOf(session.df_clean.rows)
             = IndexOf(clean_df(load_excel(session.loaded_source_id).df))
        /\ Cardinality(IndexOf(session.df_clean.rows)) = Len(session.df_clean.rows)
        /\ \A i \in DOMAIN session.df_clean.rows :
              session.df_clean.rows[i].orig_index = session.df_clean.rows[i].idx

\* a run that loaded nothing has left a row the operator filled in the working table
C4_Witness ==
    /\ ~session.df_clean.none
    /\ hist.load = "skipped"
    /\ widgets.rendered
    /\ \E i \in DOMAIN session.df_clean.rows :
          /\ session.df_clean.rows[i].idx = 3
          /\ session.df_clean.rows[i].CustomFieldValue = Txt(<<"v">>)

\* C5: a run whose load failed, load_excel having raised or a required column being
\* missing, leaves the session's working table, sheet name, original columns, loaded
\* source and pending edits as they were when the load was attempted.
C5_FailedLoadLeavesSession ==
    hist.load \in {"load_error", "missing_cols"} =>
        /\ session.df_clean = hist.before.df_clean
        /\ session.sheet_name = hist.before.sheet_name
        /\ session.original_columns = hist.before.original_columns
        /\ session.loaded_source_id = hist.before.loaded_source_id
        /\ session.updates = hist.before.updates

\* a file without the value column was picked while a table with a pending edit was
\* loaded, and table, source and edit are still in the session
C5_Witness ==
    /\ hist.load = "missing_cols"
    /\ ~session.df_clean.none
    /\ session.loaded_source_id = "good_a"
    /\ session.updates # EmptyUpdates

\* the place of the CustomFieldValue column in the rows written
ValueColumn(columns) == CHOOSE k \in DOMAIN columns : columns[k] = "CustomFieldValue"

\* C6: the rows of the filled-only export are the rows of the full export whose
\* CustomFieldValue holds a value, in the same order, and the full export has one row
\* for every row of the working table, in the table's order.
C6_GeniusIsFilledPartOfFull ==
    exported.made =>
        /\ exported.frame = session.df_clean.rows
        /\ exported.genius
             = SelectSeq(exported.full,
                         LAMBDA w : has_value(w[ValueColumn(exported.columns)]))
        /\ Len(exported.full) = Len(exported.frame)
        /\ \A i \in DOMAIN exported.full :
              \A k \in DOMAIN exported.columns :
                 exported.full[i][k] = Cell(exported.frame[i], exported.columns[k])
        /\ Len(exported.genius) = Len(FilledRows(exported.frame))

\* the table holds a filled row, a row never filled and a row whose value is blank,
\* and only the first is in the filled-only export
C6_Witness ==
    /\ exported.made
    /\ Len(exported.full) = 3
    /\ Len(exported.genius) = 1
    /\ \E i \in DOMAIN exported.frame : exported.frame[i].CustomFieldValue = Txt(<<" ">>)
    /\ \E i \in DOMAIN exported.frame : exported.frame[i].CustomFieldValue = Absent

====
